---------------------------- MODULE Spec2Model ----------------------------
(***************************************************************************)
(* A model of the BER-TLV parser of ber_tlv.c: the record decoder          *)
(* berTlv_parseRawData with its bit-level helpers, and the hierarchical    *)
(* walker berTlv_printFromRawData, one loop iteration per step.            *)
(*                                                                         *)
(* Bytes are naturals 0..255, buffers are sequences of bytes, a pointer    *)
(* into the buffer is a 0-based offset.  Integers keep the width of their  *)
(* C type: uint8_t / uint16_t values are reduced modulo 2^8 / 2^16 where   *)
(* the source stores them, and the uint32_t accumulators of __getLength    *)
(* and __getValueSize are pairs of 16-bit halves.                          *)
(***************************************************************************)
EXTENDS Integers, Sequences, FiniteSets, TLC

VARIABLES
    data,                       \* the caller's buffer (uint8_t *data), read-only
    littleEndian,               \* byte order of the target the code is built for
    pc,                         \* "start", "loop", "done", "parsed", "ub"
    dataPtr,                    \* walker: offset of dataPtr into data
    remainingSize,              \* walker: uint16_t remainingSize
    bytesWriten,                \* walker: uint16_t bytesWriten
    constructedSizeStack,       \* walker: uint16_t constructedSizeStack[5]
    constructedLevels,          \* walker: uint8_t constructedLevels
    isNotInConstructedObject,   \* walker: the garbage-skip flag handed to the decoder
    tlvObj,                     \* the TBerTlvObj the decoder fills
    out,                        \* the records written to outputStr, in order
    call,                       \* the last call of berTlv_parseRawData: arguments and results
    extents,                    \* history: value extents of the constructed records decoded
    access,                     \* history: frame-stack accesses of the last loop iteration
    input                       \* history: how the buffer was made

vars == << data, littleEndian, pc, dataPtr, remainingSize, bytesWriten,
           constructedSizeStack, constructedLevels, isNotInConstructedObject,
           tlvObj, out, call, extents, access, input >>

-----------------------------------------------------------------------------
(* Program constants (ber_tlv.c:28-66).                                    *)

MIN_HEADER_SIZE == 2
TAG_CLASS_BIT_POS == 6
TAG_CLASS_MASK == 192
TWO_BYTES_TAG_MASK == 31
TAG_OBJ_TYPE_BIT_POS == 5
TAG_OBJ_TYPE_MASk == 32
MULTPLES_BYTES_LENGTH_MASK == 128
STACK_CAPACITY == 5

BER_TLV_CLASSES ==
    << "universal class", "application class", "context-specific class", "private class" >>

BER_TLV_OBJECTS_TYPES == << "primitive", "constructed" >>

-----------------------------------------------------------------------------
(* Fixed-width arithmetic.                                                 *)

U8(x) == x % 256

U16(x) == x % 65536

RECURSIVE BitAnd(_, _)
BitAnd(a, b) ==
    IF a = 0 \/ b = 0 THEN 0
    ELSE (a % 2) * (b % 2) + 2 * BitAnd(a \div 2, b \div 2)

RECURSIVE Shr(_, _)
Shr(a, n) == IF n = 0 THEN a ELSE Shr(a \div 2, n - 1)

\* ~m of a byte mask m, as far as it meets a byte operand
NotMask(m) == 255 - m

\* a uint32_t as its two 16-bit halves
Zero32 == [hi |-> 0, lo |-> 0]

\* x <<= 8 on a uint32_t: the top byte falls off
Shl8(x) == [hi |-> (x.hi % 256) * 256 + (x.lo \div 256), lo |-> (x.lo % 256) * 256]

BitOr(a, b) == a + b - BitAnd(a, b)

\* x |= b for a byte b
Or8(x, b) == [x EXCEPT !.lo = (@ - (@ % 256)) + BitOr(@ % 256, b)]

\* conversion of a uint32_t to uint16_t
Low16(x) == x.lo

-----------------------------------------------------------------------------
(* Memory.  A read inside the buffer yields its byte.  A read past its end  *)
(* is undefined behaviour: it yields whatever lies there, the byte pad,     *)
(* which is chosen anew among Pads at every call.                           *)

Pads == {0, 90, 129}

Rd(i, pad) == IF i < Len(data) THEN data[i + 1] ELSE pad

-----------------------------------------------------------------------------
(* The static helpers of ber_tlv.c.                                        *)

__getClassIndex(tagByte) == Shr(BitAnd(tagByte, TAG_CLASS_MASK), TAG_CLASS_BIT_POS)

__getObjTypeIndex(tagByte) == Shr(BitAnd(tagByte, TAG_OBJ_TYPE_MASk), TAG_OBJ_TYPE_BIT_POS)

\* the byte at offset k of the uint16_t tag as it lies in memory
TagMemByte(tag, k) ==
    IF littleEndian
    THEN (IF k = 0 THEN tag % 256 ELSE tag \div 256)
    ELSE (IF k = 0 THEN tag \div 256 ELSE tag % 256)

__getClassString(tlv) ==
    BER_TLV_CLASSES[__getClassIndex(TagMemByte(tlv.tag, tlv.tagSize - 1)) + 1]

__getObjTypeString(tlv) ==
    BER_TLV_OBJECTS_TYPES[__getObjTypeIndex(TagMemByte(tlv.tag, tlv.tagSize - 1)) + 1]

\* __getTagSize without the two-byte case: every tag taken as one byte long
__getTagSize_OneByte(fistTagByte) == 1

__getTagSize(fistTagByte) ==
    IF BitAnd(fistTagByte, TWO_BYTES_TAG_MASK) = TWO_BYTES_TAG_MASK THEN 2 ELSE 1

__getTag(p, pad) ==
    LET twoBytesTag == BitAnd(Rd(p, pad), TWO_BYTES_TAG_MASK) = TWO_BYTES_TAG_MASK
    IN  IF twoBytesTag THEN U16(Rd(p, pad) * 256) + Rd(p + 1, pad) ELSE Rd(p, pad)

__getLengthFieldSize(p, pad) ==
    IF BitAnd(Rd(p, pad), MULTPLES_BYTES_LENGTH_MASK) # 0
    THEN BitAnd(Rd(p, pad), NotMask(MULTPLES_BYTES_LENGTH_MASK)) + 1
    ELSE 1

\* the loop of __getLength: size bytes from p, the first length byte included
\* (the iterations are applied in order, the first half of them and then the rest)
RECURSIVE LengthLoop(_, _, _, _)
LengthLoop(length, p, size, pad) ==
    IF size = 0 THEN length
    ELSE IF size = 1 THEN Or8(Shl8(length), Rd(p, pad))
    ELSE LET half  == size \div 2
             first == LengthLoop(length, p, half, pad)
         IN  IF first.lo >= 0 THEN LengthLoop(first, p + half, size - half, pad) ELSE first

__getLength(p, pad) ==
    Low16(LengthLoop(Zero32, p, U8(__getLengthFieldSize(p, pad)), pad))

\* the loop of __getValueSize over size bytes from p, more of them following
\* or not: the value is shifted after every byte but the last
RECURSIVE ValueSizeLoop(_, _, _, _, _)
ValueSizeLoop(valueSize, p, size, more, pad) ==
    IF size = 0 THEN valueSize
    ELSE IF size = 1
    THEN (IF more THEN Shl8(Or8(valueSize, Rd(p, pad))) ELSE Or8(valueSize, Rd(p, pad)))
    ELSE LET half  == size \div 2
             first == ValueSizeLoop(valueSize, p, half, TRUE, pad)
         IN  IF first.lo >= 0 THEN ValueSizeLoop(first, p + half, size - half, more, pad)
             ELSE first

__getValueSize(p, pad) ==
    LET size == U8(__getLengthFieldSize(p, pad))
    IN  IF size = 1 THEN [hi |-> 0, lo |-> Rd(p, pad)]
        ELSE ValueSizeLoop(Zero32, p + 1, size - 1, FALSE, pad)

\* __isConstructed without the pointer adjustment: always the byte at offset 0
__isConstructed_NoAdjust(tlv) ==
    Shr(BitAnd(TagMemByte(tlv.tag, 0), TAG_OBJ_TYPE_MASk), TAG_OBJ_TYPE_BIT_POS) = 1

__isConstructed(tlv) ==
    LET tagPtr == IF tlv.tagSize > 1 THEN tlv.tagSize - 1 ELSE 0
    IN  Shr(BitAnd(TagMemByte(tlv.tag, tagPtr), TAG_OBJ_TYPE_MASk), TAG_OBJ_TYPE_BIT_POS) = 1

\* the number of blanks __addIndentation writes
__addIndentation(levels) == U8(levels * 2)

RECURSIVE __skipGarbageData(_, _, _)
__skipGarbageData(p, size, pad) ==
    IF size # 0 /\ (Rd(p, pad) = 0 \/ Rd(p, pad) = 255)
    THEN 1 + __skipGarbageData(p + 1, size - 1, pad)
    ELSE 0

-----------------------------------------------------------------------------
(* berTlv_parseRawData(data + p, &size, &tlv, flag).  The result holds the *)
(* return value (err), *size and *tlvObjOut on return, the bytes skipped,  *)
(* and the offsets read, relative to p.                                    *)

UnsetTlv ==
    [tag |-> 0, tagSize |-> 0, lengthValue |-> 0, lengthSize |-> 0, valueSize |-> 0, value |-> -1]

berTlv_parseRawData(p, size, tlv, flag, pad) ==
    LET skippedBytes == IF flag THEN __skipGarbageData(p, size, pad) ELSE 0
        size1        == size - skippedBytes
        skipReads    == IF ~flag THEN {}
                        ELSE IF skippedBytes < size THEN 0 .. skippedBytes
                        ELSE 0 .. (skippedBytes - 1)
        dataP        == p + skippedBytes
        tagSize      == __getTagSize(Rd(dataP, pad))
        minHeaderSize == U8(IF tagSize = 2 THEN MIN_HEADER_SIZE + 1 ELSE MIN_HEADER_SIZE)
        tlv1         == [tlv EXCEPT !.tagSize = tagSize]
        reads1       == skipReads \cup {skippedBytes}
        lenP         == dataP + tagSize
        lengthSize   == __getLengthFieldSize(lenP, pad)
        tlv2         == [tlv1 EXCEPT !.tag = __getTag(dataP, pad),
                                     !.lengthSize = U8(lengthSize),
                                     !.lengthValue = __getLength(lenP, pad),
                                     !.valueSize = Low16(__getValueSize(lenP, pad))]
        reads2       == reads1 \cup (skippedBytes .. (skippedBytes + tagSize - 1))
                               \cup ((skippedBytes + tagSize) ..
                                     (skippedBytes + tagSize + U8(lengthSize) - 1))
        fullObjSize  == U8(tlv2.tagSize + tlv2.lengthSize + tlv2.valueSize)
    IN  IF flag /\ size1 = 0
        THEN [err |-> FALSE, size |-> size1, tlv |-> tlv, skipped |-> skippedBytes,
              reads |-> skipReads, stage |-> "empty"]
        ELSE IF size1 < minHeaderSize
        THEN [err |-> TRUE, size |-> size1, tlv |-> tlv1, skipped |-> skippedBytes,
              reads |-> reads1, stage |-> "header"]
        ELSE IF size1 < fullObjSize
        THEN [err |-> TRUE, size |-> size1, tlv |-> tlv2, skipped |-> skippedBytes,
              reads |-> reads2, stage |-> "value"]
        ELSE [err |-> FALSE, size |-> size1,
              tlv |-> [tlv2 EXCEPT !.value = lenP + tlv2.lengthSize],
              skipped |-> skippedBytes, reads |-> reads2, stage |-> "object"]

-----------------------------------------------------------------------------
(* The buffers the program is run on.                                      *)

MaxRawLen == 3
MaxDepth == 6
MaxGarbage == 2

\* BER length field: short form up to 127, else 0x80|N and N big-endian bytes
EncLen(L) ==
    IF L <= 127 THEN << L >>
    ELSE IF L <= 255 THEN << 129, L >>
    ELSE << 130, L \div 256, L % 256 >>

Tlv(tag, val) == tag \o EncLen(Len(val)) \o val

Value(L, seed) == [i \in 1 .. L |-> (seed + i - 1) % 256]

Desc(kind, bytes) ==
    [kind |-> kind, bytes |-> bytes, tag |-> << >>, L |-> 0, seed |-> 0,
     garbage |-> {}, depth |-> 0]

\* arbitrary short buffers
RawBytes == {0, 255, 90, 112, 159, 129}

RawInputs ==
    { Desc("raw", b) : b \in UNION { [1 .. n -> RawBytes] : n \in 0 .. MaxRawLen } }

\* one primitive record, possibly followed by a further byte
PrimTags == { << 90 >>, << 159, 2 >>, << 223, 32 >> }

PrimLens == {0, 1, 127, 128, 255, 256}

Seeds == {0, 254}

PrimInputs ==
    { [Desc("prim", Tlv(t, Value(L, s)) \o x) EXCEPT !.tag = t, !.L = L, !.seed = s] :
        t \in PrimTags, L \in PrimLens, s \in Seeds, x \in { << >>, << 0 >> } }

\* one primitive record cut short: its last value byte, or all of them, missing
CutInputs ==
    { [Desc("cut", SubSeq(Tlv(t, Value(L, s)), 1,
                          Len(Tlv(t, Value(L, s))) - (IF all THEN L ELSE 1)))
          EXCEPT !.tag = t, !.L = L, !.seed = s] :
        t \in PrimTags, L \in PrimLens \ {0}, s \in Seeds, all \in BOOLEAN }

Leaf0 == Tlv(<< 90 >>, << >>)

Leaf1 == Tlv(<< 159, 2 >>, << 0, 255 >>)

\* k constructed objects inside one another around core, each level with a
\* primitive sibling before (pre) and after (post) the inner object
RECURSIVE Nest(_, _, _, _)
Nest(k, pre, post, core) ==
    IF k = 0 THEN core
    ELSE Tlv(<< 112 >>, (IF pre THEN Leaf0 ELSE << >>)
                          \o Nest(k - 1, pre, post, core)
                          \o (IF post THEN Leaf0 ELSE << >>))

NestInputs ==
    { [Desc("nest", Nest(k, pre, post, core)) EXCEPT !.depth = k] :
        k \in 0 .. MaxDepth, pre \in BOOLEAN, post \in BOOLEAN,
        core \in { << >>, Leaf0, Leaf1 } }

\* two top-level objects with filler before, between and after them
GarbageRuns ==
    { [i \in 1 .. n |-> IF i = 1 /\ n % 2 = 1 THEN 255 ELSE 0] : n \in 0 .. MaxGarbage }

Items ==
    { Leaf0, Leaf1, Tlv(<< 112 >>, << >>), Tlv(<< 112 >>, Leaf1),
      Tlv(<< 112 >>, Tlv(<< 112 >>, Leaf0) \o Leaf0) }

SeqInputs ==
    { [Desc("seq", g1 \o a \o g2 \o b \o g3) EXCEPT
          !.garbage = (0 .. (Len(g1) - 1))
                      \cup ((Len(g1) + Len(a)) .. (Len(g1) + Len(a) + Len(g2) - 1))
                      \cup ((Len(g1) + Len(a) + Len(g2) + Len(b)) ..
                            (Len(g1) + Len(a) + Len(g2) + Len(b) + Len(g3) - 1))] :
        g1 \in GarbageRuns, a \in Items, g2 \in GarbageRuns, b \in Items, g3 \in GarbageRuns }

Inputs == RawInputs \cup PrimInputs \cup CutInputs \cup NestInputs \cup SeqInputs

-----------------------------------------------------------------------------
(* The state after construction: a buffer, nothing called yet.             *)

NoCall ==
    [made |-> FALSE, p |-> 0, flag |-> FALSE, sizeIn |-> 0, err |-> FALSE, sizeOut |-> 0,
     skipped |-> 0, reads |-> {}, stage |-> "none"]

NoAccess == [idx |-> {}, debited |-> FALSE, before |-> 0, amount |-> 0]

EmptyStack == [i \in 0 .. (STACK_CAPACITY - 1) |-> 0]

Init ==
    /\ input \in Inputs
    /\ data = input.bytes
    /\ littleEndian \in BOOLEAN
    /\ pc = "start"
    /\ dataPtr = 0
    /\ remainingSize = 0
    /\ bytesWriten = 0
    /\ constructedSizeStack = EmptyStack
    /\ constructedLevels = 0
    /\ isNotInConstructedObject = TRUE
    /\ tlvObj = UnsetTlv
    /\ out = << >>
    /\ call = NoCall
    /\ extents = {}
    /\ access = NoAccess

\* the outcomes of a call, each with the pad it read: one outcome when the
\* call reads nothing past the buffer
Outcomes(p, size, tlv, flag) ==
    LET r0 == berTlv_parseRawData(p, size, tlv, flag, 0)
    IN  IF \A i \in r0.reads : p + i < Len(data)
        THEN { [pad |-> 0, r |-> r0] }
        ELSE { [pad |-> pad, r |-> berTlv_parseRawData(p, size, tlv, flag, pad)] : pad \in Pads }

CallOf(p, size, flag, r) ==
    [made |-> TRUE, p |-> p, flag |-> flag, sizeIn |-> size, err |-> r.err, sizeOut |-> r.size,
     skipped |-> r.skipped, reads |-> r.reads, stage |-> r.stage]

-----------------------------------------------------------------------------
(* A caller's own call of berTlv_parseRawData on the buffer, with any      *)
(* *size up to the buffer's length and either value of the flag.           *)

SizeArgs == { n \in 0 .. Len(data) : n <= MaxRawLen \/ n >= Len(data) - 1 }

ParseCall ==
    /\ pc = "start"
    /\ \E flag \in BOOLEAN, size \in SizeArgs :
         \E o \in Outcomes(0, size, UnsetTlv, flag) :
            /\ tlvObj' = o.r.tlv
            /\ call' = CallOf(0, size, flag, o.r)
    /\ pc' = "parsed"
    /\ UNCHANGED << data, littleEndian, dataPtr, remainingSize, bytesWriten,
                    constructedSizeStack, constructedLevels, isNotInConstructedObject,
                    out, extents, access, input >>

-----------------------------------------------------------------------------
(* berTlv_printFromRawData(data, size, outputStr) with size the buffer's   *)
(* length: entry, one action per iteration of its while loop, and return.  *)

PrintStart ==
    /\ pc = "start"
    /\ pc' = "loop"
    /\ dataPtr' = 0
    /\ remainingSize' = U16(Len(data))
    /\ bytesWriten' = 0
    /\ constructedSizeStack' = EmptyStack
    /\ constructedLevels' = 0
    /\ isNotInConstructedObject' = TRUE
    /\ UNCHANGED << data, littleEndian, tlvObj, out, call, extents, access, input >>

\* characters of "%02X" and of "%d"
HexWidth(n) == IF n < 256 THEN 2 ELSE IF n < 4096 THEN 3 ELSE 4

DecWidth(n) ==
    IF n < 10 THEN 1 ELSE IF n < 100 THEN 2 ELSE IF n < 1000 THEN 3 ELSE IF n < 10000 THEN 4 ELSE 5

\* characters of "TAG - 0x%02X (%s, %s)\n" and of "LEN - %d bytes\n"
TagLine(tlv) == 8 + HexWidth(tlv.tag) + 2 + Len(__getClassString(tlv)) + 2
                  + Len(__getObjTypeString(tlv)) + 2

LenLine(tlv) == 6 + DecWidth(tlv.lengthValue) + 7

\* x -= y on a uint16_t
Sub16(x, y) == U16(x + 65536 - U16(y))

PrintStep ==
    /\ pc = "loop"
    /\ remainingSize # 0
    /\ \E o \in Outcomes(dataPtr, remainingSize, tlvObj, isNotInConstructedObject) :
        LET r == o.r
            pad == o.pad
            t == r.tlv
            readsPast == \E i \in r.reads : dataPtr + i >= Len(data)
            levels == constructedLevels
            indent == __addIndentation(levels)
            headerSize == U16(t.tagSize + t.lengthSize)
            fullObjSize == U16(headerSize + t.valueSize)
            isCons == __isConstructed(t)
            hasFrame == levels # 0
            top == levels - 1
            debit == headerSize + t.valueSize
            topAfter == IF hasFrame THEN Sub16(constructedSizeStack[top], debit) ELSE 0
            popped == hasFrame /\ topAfter = 0
            levels1 == IF popped THEN levels - 1 ELSE levels
            debited == IF hasFrame THEN [constructedSizeStack EXCEPT ![top] = topAfter]
                       ELSE constructedSizeStack
            pushFits == levels1 < STACK_CAPACITY
            val == [i \in 1 .. t.valueSize |-> Rd(t.value + i - 1, pad)]
            valPast == ~isCons /\ t.valueSize # 0 /\ t.value + t.valueSize > Len(data)
            chars == IF isCons THEN indent + TagLine(t) + indent + LenLine(t) + 1
                     ELSE indent + TagLine(t) + indent + LenLine(t)
                          + (IF t.valueSize # 0 THEN indent + 6 + 5 * t.valueSize + 1 ELSE 0) + 1
            rec == [off |-> dataPtr + r.skipped, indent |-> indent, tag |-> t.tag,
                    tagSize |-> t.tagSize, class |-> __getClassString(t),
                    type |-> __getObjTypeString(t), constructed |-> isCons,
                    len |-> t.lengthValue, value |-> t.value, valueSize |-> t.valueSize,
                    val |-> IF isCons \/ t.valueSize = 0 THEN << >> ELSE val]
        IN  /\ call' = CallOf(dataPtr, remainingSize, isNotInConstructedObject, r)
            /\ tlvObj' = t
            /\ IF r.err \/ r.size = 0
               THEN \* return bytesWriten, or break: nothing but garbage was left
                    /\ pc' = "done"
                    /\ remainingSize' = r.size
                    /\ access' = NoAccess
                    /\ UNCHANGED << dataPtr, bytesWriten, constructedSizeStack,
                                    constructedLevels, isNotInConstructedObject, out, extents >>
               ELSE /\ out' = Append(out, rec)
                    /\ bytesWriten' = U16(bytesWriten + chars)
                    /\ IF isCons
                       THEN /\ dataPtr' = t.value
                            /\ remainingSize' = Sub16(r.size, headerSize)
                            /\ constructedSizeStack' =
                                 IF pushFits THEN [debited EXCEPT ![levels1] = t.valueSize]
                                 ELSE debited
                            /\ constructedLevels' = U8(levels1 + 1)
                            /\ isNotInConstructedObject' = FALSE
                            /\ extents' = extents \cup { << t.value, t.value + t.valueSize >> }
                            /\ access' = [idx |-> (IF hasFrame THEN {top} ELSE {}) \cup {levels1},
                                          debited |-> hasFrame,
                                          before |-> IF hasFrame THEN constructedSizeStack[top] ELSE 0,
                                          amount |-> IF hasFrame THEN debit ELSE 0]
                            /\ pc' = IF readsPast \/ ~pushFits THEN "ub" ELSE "loop"
                       ELSE /\ dataPtr' = t.value + t.valueSize
                            /\ remainingSize' = Sub16(r.size, fullObjSize)
                            /\ constructedSizeStack' = debited
                            /\ constructedLevels' = levels1
                            /\ isNotInConstructedObject' =
                                 IF hasFrame THEN (popped \/ isNotInConstructedObject) ELSE TRUE
                            /\ extents' = extents
                            /\ access' = [idx |-> IF hasFrame THEN {top} ELSE {},
                                          debited |-> hasFrame,
                                          before |-> IF hasFrame THEN constructedSizeStack[top] ELSE 0,
                                          amount |-> IF hasFrame THEN fullObjSize ELSE 0]
                            /\ pc' = IF readsPast \/ valPast THEN "ub" ELSE "loop"
    /\ UNCHANGED << data, littleEndian, input >>

PrintReturn ==
    /\ pc = "loop"
    /\ remainingSize = 0
    /\ pc' = "done"
    /\ UNCHANGED << data, littleEndian, dataPtr, remainingSize, bytesWriten,
                    constructedSizeStack, constructedLevels, isNotInConstructedObject,
                    tlvObj, out, call, extents, access, input >>

Next == ParseCall \/ PrintStart \/ PrintStep \/ PrintReturn

Spec == Init /\ [][Next]_vars

-----------------------------------------------------------------------------
(* What the claims speak of.                                               *)

\* bit 5 of a byte, by arithmetic
Bit5(b) == (b \div 32) % 2

\* the low five bits of a byte are all set
LowFiveSet(b) == b % 32 = 31

IsGarbage(b) == b = 0 \/ b = 255

\* the value of a tag of one or two encoded bytes
TagValue(tag) == IF Len(tag) = 1 THEN tag[1] ELSE tag[1] * 256 + tag[2]

\* the record the buffer was encoded from, and the size of its encoding
Original == Value(input.L, input.seed)

EncodedSize == Len(Tlv(input.tag, Original))

\* the last call was given a region shorter than the minimum header
ShortRegion ==
    /\ call.made
    /\ \/ call.sizeIn < 2
       \/ call.sizeIn < 3 /\ LowFiveSet(data[call.p + 1])

\* the number of constructed objects decoded so far whose value extent holds offset off
Depth(off) == Cardinality({ x \in extents : x[1] <= off /\ off < x[2] })

\* the records written so far
Emitted == { out[i] : i \in 1 .. Len(out) }

-----------------------------------------------------------------------------
\* C1: a primitive record (tag, L, value) encoded as tag + BER length + value and
\* handed to berTlv_parseRawData with *size at least the encoded size is decoded
\* without error to the same tag, lengthValue = L and the L original value bytes.
C1_RoundTrip ==
    (pc = "parsed" /\ input.kind = "prim" /\ call.sizeIn >= EncodedSize) =>
        /\ ~call.err
        /\ tlvObj.tag = TagValue(input.tag)
        /\ tlvObj.lengthValue = input.L
        /\ tlvObj.value >= 0
        /\ SubSeq(data, tlvObj.value + 1, tlvObj.value + input.L) = Original

\* C1, short form and three-byte long form only: what the decoder does reproduce
C1_RoundTripButOneByteLongForm ==
    (pc = "parsed" /\ input.kind = "prim" /\ call.sizeIn >= EncodedSize
       /\ (input.L <= 127 \/ input.L >= 256)) =>
        /\ ~call.err
        /\ tlvObj.tag = TagValue(input.tag)
        /\ tlvObj.lengthValue = input.L
        /\ tlvObj.valueSize = input.L
        /\ SubSeq(data, tlvObj.value + 1, tlvObj.value + input.L) = Original

\* C2: whenever the header passes the minimum-header check (and was read inside
\* the region) and tagSize + lengthSize + declared value length exceeds the
\* remaining size, berTlv_parseRawData returns an error, and the walker writes no
\* record that does not fit the buffer.
C2_InsufficientValueDetected ==
    /\ (call.made /\ call.stage \in {"value", "object"}
          /\ (\A i \in call.reads : i < call.sizeIn)
          /\ tlvObj.tagSize + tlvObj.lengthSize + tlvObj.valueSize > call.sizeOut) => call.err
    /\ \A e \in Emitted : e.value + e.valueSize <= Len(data)

\* C3 as stated: a region shorter than the minimum header is rejected with an error
\* and *size unchanged, whatever the garbage-skip flag.
C3_ShortRegionRejected ==
    ShortRegion => (call.err /\ call.sizeOut = call.sizeIn)

\* C3 as amended: the same, when the flag is off, or when it is on and the region is
\* not empty and does not begin with a garbage byte.
C3_ShortRegionRejectedUnlessSkipped ==
    (ShortRegion /\ (~call.flag \/ (call.sizeIn >= 1 /\ ~IsGarbage(data[call.p + 1])))) =>
        (call.err /\ call.sizeOut = call.sizeIn)

\* a two-byte region that starts a two-byte tag, rejected with the flag on
C3_Witness ==
    /\ call.made /\ call.flag /\ call.sizeIn = 2
    /\ LowFiveSet(data[call.p + 1]) /\ ~IsGarbage(data[call.p + 1])
    /\ call.err /\ call.sizeOut = 2 /\ call.stage = "header"

\* C4: with *size >= 1, berTlv_parseRawData reads only offsets 0 .. *size-1, and an
\* object it accepts lies inside the remaining size.
C4_ReadsInsideRegion ==
    (call.made /\ call.sizeIn >= 1) =>
        /\ \A i \in call.reads : i < call.sizeIn
        /\ (call.stage = "object" =>
              call.skipped + tlvObj.tagSize + tlvObj.lengthSize + tlvObj.valueSize <= call.sizeIn)

\* C5: constructedLevels never exceeds 5 and every access of constructedSizeStack
\* uses an index in 0..4.
C5_BoundedNesting ==
    /\ constructedLevels <= STACK_CAPACITY
    /\ access.idx \subseteq 0 .. (STACK_CAPACITY - 1)

\* C6: on buffers of well-formed nested objects, empty constructed ones included, a
\* frame is never debited by more than it holds, and every frame has been popped
\* when the walk has consumed the buffer.
C6_FrameAccounting ==
    input.kind = "nest" =>
        /\ access.debited => access.amount <= access.before
        /\ (pc = "done" /\ ~call.err) => constructedLevels = 0

\* C6 without empty constructed objects: the accounting the walker does keep
C6_FrameAccountingNonEmpty ==
    (input.kind = "nest" /\ input.depth <= STACK_CAPACITY
       /\ \A e \in Emitted : e.constructed => e.valueSize # 0) =>
        /\ access.debited => access.amount <= access.before
        /\ (pc = "done" /\ ~call.err) => constructedLevels = 0

\* C7: filler bytes before, between and after top-level objects are skipped (the
\* walk ends without a decode error) and are part of no written record, and the
\* value bytes of a primitive record are written as they are in the buffer.
C7_GarbageSkippedValuesKept ==
    input.kind = "seq" =>
        /\ \A e \in Emitted : \A g \in input.garbage : ~(e.off <= g /\ g < e.value)
        /\ \A e \in Emitted :
             (~e.constructed /\ e.valueSize # 0) =>
                e.val = SubSeq(data, e.value + 1, e.value + e.valueSize)
        /\ pc = "done" => ~call.err

\* C7 when no top-level object is an empty constructed one
C7_GarbageSkippedNoEmptyConstructed ==
    (input.kind = "seq" /\ \A e \in Emitted : e.constructed => e.valueSize # 0) =>
        /\ \A e \in Emitted : \A g \in input.garbage : ~(e.off <= g /\ g < e.value)
        /\ \A e \in Emitted :
             (~e.constructed /\ e.valueSize # 0) =>
                e.val = SubSeq(data, e.value + 1, e.value + e.valueSize)
        /\ pc = "done" => ~call.err

\* C8 as stated: the walker's primitive/constructed decision and the printed label
\* of every record equal bit 5 of the tag's last encoded byte.
C8_FlagFromLastTagByte ==
    \A e \in Emitted :
        /\ e.constructed = (Bit5(data[e.off + e.tagSize]) = 1)
        /\ e.type = BER_TLV_OBJECTS_TYPES[Bit5(data[e.off + e.tagSize]) + 1]

\* C8 as amended: on a little-endian target they equal bit 5 of the tag's first
\* encoded byte.
C8_FlagFromFirstTagByte ==
    littleEndian =>
        \A e \in Emitted :
            /\ e.constructed = (Bit5(data[e.off + 1]) = 1)
            /\ e.type = BER_TLV_OBJECTS_TYPES[Bit5(data[e.off + 1]) + 1]

\* a written record with a two-byte tag whose two bytes differ in bit 5
C8_Witness ==
    \E e \in Emitted :
        /\ littleEndian /\ e.tagSize = 2
        /\ Bit5(data[e.off + 1]) # Bit5(data[e.off + 2])

\* C9: on well-formed buffers nested at most 5 deep, every record is indented by two
\* blanks per constructed object whose value extent contains it.
C9_IndentationIsDepth ==
    (input.kind = "nest" /\ input.depth <= STACK_CAPACITY) =>
        \A e \in Emitted : e.indent = 2 * Depth(e.off)

\* C10: on well-formed nested buffers, when the walker is about to call the decoder
\* with the garbage-skip flag set, no frame is open and the offset lies in no
\* constructed object's value.
C10_SkipOnlyOutsideConstructed ==
    (input.kind = "nest" /\ input.depth <= STACK_CAPACITY
       /\ pc = "loop" /\ remainingSize # 0 /\ isNotInConstructedObject) =>
        /\ constructedLevels = 0
        /\ Depth(dataPtr) = 0

=============================================================================
